---- MODULE Spec2Model ----
(***************************************************************************)
(* A model of dragonfly's search core (src/core/search/search.cc):         *)
(*   - FieldIndices: the registry of per-field indices with its            *)
(*     all-or-nothing Add and its Remove, and the sorted all_ids_ vector;  *)
(*   - BasicSearch: the recursive evaluator of a query AST over a          *)
(*     FieldIndices (IndexResult, Merge, UnifyResults, Negate, KNN).       *)
(*                                                                         *)
(* The concrete indices (TextIndex, NumericIndex, FlatVectorIndex,         *)
(* HnswVectorIndex, the sort indices) live outside search.cc; they are     *)
(* modelled by their contract: an index is the set of DocIds it holds, and *)
(* what a document holds in a field is a fixed function of its DocId.      *)
(***************************************************************************)
EXTENDS Integers, Sequences, FiniteSets, TLC

(***************************************************************************)
(* Bounds of the model.                                                    *)
(***************************************************************************)
\* DocIds are 1..MaxDoc.
MaxDoc == 3
\* FieldIndices::Add is not called once all_ids_ holds MaxIds entries.
MaxIds == 2
\* A KNN node's limit is in 1..MaxLimit.
MaxLimit == 2

Docs == 1..MaxDoc

(***************************************************************************)
(* The schema: title TEXT, price NUMERIC SORTABLE, emb VECTOR (flat),      *)
(* hemb VECTOR (HNSW).  ContentOrder and SortOrder are the iteration       *)
(* orders of the maps indices_ and sort_indices_.                          *)
(***************************************************************************)
ContentOrder == <<"title", "price", "emb", "hemb">>
SortOrder == <<"price">>

SeqRange(s) == {s[i] : i \in 1..Len(s)}

ContentFields == SeqRange(ContentOrder)
SortFields == SeqRange(SortOrder)

TextFields == {"title"}
NumericFields == {"price"}
FlatFields == {"emb"}
HnswFields == {"hemb"}
VectorFields == FlatFields \cup HnswFields

VARIABLES
  indices,       \* FieldIndices::indices_: content field -> the DocIds its index holds
  sort_indices,  \* FieldIndices::sort_indices_: sort field -> the DocIds its index holds
  all_ids,       \* FieldIndices::all_ids_: the vector of DocIds
  last,          \* the last FieldIndices call: its arguments, return value and index calls
  sr,            \* the SearchResult of the Search made (status "none" before it)
  u,             \* the arguments and results of UnifyResults calls (SpecUnify)
  profiling_enabled  \* SearchAlgorithm::profiling_enabled_

vars == <<indices, sort_indices, all_ids, last, sr, u, profiling_enabled>>

(***************************************************************************)
(* The index contract (BaseIndex::Add / BaseIndex::Remove).  Add returns   *)
(* whether the index accepted the document; a rejecting index is left as   *)
(* it was.                                                                 *)
(***************************************************************************)
IndexAdd(idx, doc, accepts) == IF accepts THEN idx \cup {doc} ELSE idx

IndexRemove(idx, doc) == idx \ {doc}

(***************************************************************************)
(* std::upper_bound / std::lower_bound on a sorted vector, as 1-based      *)
(* insert / erase positions.                                               *)
(***************************************************************************)
UpperBound(s, x) == Cardinality({i \in 1..Len(s) : s[i] <= x}) + 1

LowerBound(s, x) == Cardinality({i \in 1..Len(s) : s[i] < x}) + 1

InsertAt(s, pos, x) == SubSeq(s, 1, pos - 1) \o <<x>> \o SubSeq(s, pos, Len(s))

EraseAt(s, pos) == SubSeq(s, 1, pos - 1) \o SubSeq(s, pos + 1, Len(s))

(***************************************************************************)
(* try_add (search.cc:624-633): walk a container in order, stop at the     *)
(* first index that rejects.  The number of indices that accepted.         *)
(***************************************************************************)
Accepted(order, accepts) ==
  IF \A i \in 1..Len(order) : accepts[order[i]]
  THEN Len(order)
  ELSE (CHOOSE i \in 1..Len(order) :
          /\ ~accepts[order[i]]
          /\ \A j \in 1..(i - 1) : accepts[order[j]]) - 1

TryAdd(container, order, doc, accepts) ==
  [f \in DOMAIN container |->
     IF \E i \in 1..Accepted(order, accepts) : order[i] = f
     THEN IndexAdd(container[f], doc, TRUE)
     ELSE container[f]]

\* successfully_added_indices of one container, in the order of acceptance
Successes(kind, order, accepts) ==
  [i \in 1..Accepted(order, accepts) |-> <<kind, order[i]>>]

\* the rollback loop (search.cc:642-644): Remove on each recorded success
RollbackOrder(successes) == successes

Rollback(container, kind, successes, doc) ==
  [f \in DOMAIN container |->
     IF <<kind, f>> \in SeqRange(successes)
     THEN IndexRemove(container[f], doc)
     ELSE container[f]]

Snapshot == [indices |-> indices, sort_indices |-> sort_indices, all_ids |-> all_ids]

\* last: op, doc and ok are the call and what it returned; fresh: the doc was not
\* in all_ids_ before the Add (for a Remove: it undoes such an Add, made just before);
\* added, removed: the indices that accepted the doc and those rolled back, in
\* order; attempted: the indices whose Add was called, in order; pre_ids:
\* all_ids_ before the call; pre: the FieldIndices before the Add of a new doc
\* that succeeded
NoCall == [op |-> "none", doc |-> 0, ok |-> FALSE, fresh |-> FALSE,
           added |-> <<>>, removed |-> <<>>, attempted |-> <<>>,
           pre_ids |-> <<>>, pre |-> <<>>]

NoResult == [query |-> <<>>, status |-> "none"]

NoUnify == [step |-> "none"]

(***************************************************************************)
(* FieldIndices::Add (search.cc:618-650).  acc_c and acc_s say, per index, *)
(* whether its Add accepts the document.                                   *)
(***************************************************************************)
AllIdsInsert(s, doc) == InsertAt(s, UpperBound(s, doc), doc)

\* was_added when the function returns
WasAdded(acc_c, acc_s) ==
  /\ Accepted(ContentOrder, acc_c) = Len(ContentOrder)
  /\ Accepted(SortOrder, acc_s) = Len(SortOrder)

\* successfully_added_indices when the two try_add calls are over
SuccessfullyAdded(acc_c, acc_s) ==
  Successes("content", ContentOrder, acc_c)
  \o (IF Accepted(ContentOrder, acc_c) = Len(ContentOrder)
      THEN Successes("sort", SortOrder, acc_s) ELSE <<>>)

\* the indices on which try_add called Add: those that accepted and, after
\* them, the one that rejected
Tried(kind, order, accepts) ==
  [i \in 1..(IF Accepted(order, accepts) = Len(order)
              THEN Len(order) ELSE Accepted(order, accepts) + 1) |-> <<kind, order[i]>>]

Attempted(acc_c, acc_s) ==
  Tried("content", ContentOrder, acc_c)
  \o (IF Accepted(ContentOrder, acc_c) = Len(ContentOrder)
      THEN Tried("sort", SortOrder, acc_s) ELSE <<>>)

Add(doc, acc_c, acc_s) ==
  LET content_ok == Accepted(ContentOrder, acc_c) = Len(ContentOrder)
      c1 == TryAdd(indices, ContentOrder, doc, acc_c)
      s1 == IF content_ok THEN TryAdd(sort_indices, SortOrder, doc, acc_s)
            ELSE sort_indices
      successes == SuccessfullyAdded(acc_c, acc_s)
  IN /\ Len(all_ids) < MaxIds
     /\ IF WasAdded(acc_c, acc_s)
        THEN /\ indices' = c1
             /\ sort_indices' = s1
             /\ all_ids' = AllIdsInsert(all_ids, doc)
        ELSE /\ indices' = Rollback(c1, "content", successes, doc)
             /\ sort_indices' = Rollback(s1, "sort", successes, doc)
             /\ all_ids' = all_ids

\* the record of an Add call
AddCall(doc, acc_c, acc_s) ==
  [op |-> "Add", doc |-> doc, ok |-> WasAdded(acc_c, acc_s),
   fresh |-> doc \notin SeqRange(all_ids),
   added |-> SuccessfullyAdded(acc_c, acc_s),
   removed |-> IF WasAdded(acc_c, acc_s) THEN <<>>
               ELSE RollbackOrder(SuccessfullyAdded(acc_c, acc_s)),
   attempted |-> Attempted(acc_c, acc_s),
   pre_ids |-> all_ids,
   pre |-> IF WasAdded(acc_c, acc_s) /\ doc \notin SeqRange(all_ids)
           THEN Snapshot ELSE <<>>]

(***************************************************************************)
(* FieldIndices::Remove (search.cc:652-661).  The DCHECK at line 659       *)
(* states the precondition: doc is in all_ids_.                            *)
(***************************************************************************)
RemoveAll(container, doc) == [f \in DOMAIN container |-> IndexRemove(container[f], doc)]

\* a Remove that erases all_ids_.begin() instead of the doc's position
AllIdsEraseFront(s, doc) == EraseAt(s, 1)

AllIdsErase(s, doc) == EraseAt(s, LowerBound(s, doc))

Remove(doc) ==
  /\ doc \in SeqRange(all_ids)
  /\ indices' = RemoveAll(indices, doc)
  /\ sort_indices' = RemoveAll(sort_indices, doc)
  /\ all_ids' = AllIdsErase(all_ids, doc)

\* the record of a Remove call
RemoveCall(doc) ==
  [op |-> "Remove", doc |-> doc, ok |-> TRUE,
   fresh |-> last.op = "Add" /\ last.doc = doc /\ last.ok /\ last.fresh,
   added |-> <<>>, removed |-> <<>>, attempted |-> <<>>, pre_ids |-> all_ids,
   pre |-> IF last.op = "Add" /\ last.doc = doc THEN last.pre ELSE <<>>]

(***************************************************************************)
(* The documents: what the DocumentAccessor of DocId d yields per field.   *)
(***************************************************************************)
Terms == {"a", "b"}

Title(d) == {w \in Terms : (w = "a" /\ d % 3 # 0) \/ (w = "b" /\ d >= 2)}

Price(d) == d

Emb(d) == <<d % 2, d \div 2>>

\* BaseVectorIndex::Info().first of both vector fields
Dim == 2

\* the query vectors of the KNN nodes; WrongDimVec has one component too many
QueryVecs == {<<1, 0>>, <<0, 1>>}

WrongDimVec == <<1, 0, 0>>

(***************************************************************************)
(* VectorDistance (an external free function): the squared L2 distance.    *)
(***************************************************************************)
VectorDistance(q, v) ==
  (q[1] - v[1]) * (q[1] - v[1]) + (q[2] - v[2]) * (q[2] - v[2])

(***************************************************************************)
(* Sequences of DocIds.                                                    *)
(***************************************************************************)
RECURSIVE SortedSeq(_)
SortedSeq(S) ==
  IF S = {} THEN <<>>
  ELSE LET m == CHOOSE x \in S : \A y \in S : x <= y
       IN <<m>> \o SortedSeq(S \ {m})

IsSorted(s) == \A i \in 1..(Len(s) - 1) : s[i] <= s[i + 1]

IsSortedUnique(s) == \A i \in 1..(Len(s) - 1) : s[i] < s[i + 1]

(***************************************************************************)
(* IndexResult (search.cc:50-127): the DocIds a result iterates over, and  *)
(* what Size() returns.  Size() is the container's size(); for a numeric   *)
(* RangeResult it may exceed the number of DocIds (search.cc:71-73).       *)
(***************************************************************************)
IndexResult(ids) == [ids |-> ids, size |-> Len(ids)]

EmptyResult == IndexResult(<<>>)

Size(r) == r.size

Take(r) == r.ids

(***************************************************************************)
(* The index contracts the evaluator reads.                                *)
(***************************************************************************)
\* TextIndex::Matching(term): the posting list of term
Matching(field, term) == IndexResult(SortedSeq({d \in indices[field] : term \in Title(d)}))

\* NumericIndex::Range(lo, hi): the docs with lo <= value <= hi; size() counts
\* the entries of the blocks the range touches, at most every entry of the index
RangeResults(field, lo, hi) ==
  LET ids == SortedSeq({d \in indices[field] : lo <= Price(d) /\ Price(d) <= hi})
  IN {[ids |-> ids, size |-> n] : n \in Len(ids)..Cardinality(indices[field])}

\* BaseIndex / BaseSortIndex ::GetAllDocsWithNonNullValues
AllDocsWithNonNullValues(idx) == IndexResult(SortedSeq(idx))

(***************************************************************************)
(* std::set_intersection, std::set_union and std::binary_search as the     *)
(* standard library computes them, on any two sequences.                   *)
(***************************************************************************)
RECURSIVE SetIntersection(_, _)
SetIntersection(s1, s2) ==
  IF s1 = <<>> \/ s2 = <<>> THEN <<>>
  ELSE IF Head(s1) < Head(s2) THEN SetIntersection(Tail(s1), s2)
  ELSE IF Head(s2) < Head(s1) THEN SetIntersection(s1, Tail(s2))
  ELSE <<Head(s1)>> \o SetIntersection(Tail(s1), Tail(s2))

RECURSIVE SetUnion(_, _)
SetUnion(s1, s2) ==
  IF s1 = <<>> THEN s2
  ELSE IF s2 = <<>> THEN s1
  ELSE IF Head(s2) < Head(s1) THEN <<Head(s2)>> \o SetUnion(s1, Tail(s2))
  ELSE <<Head(s1)>> \o
       SetUnion(Tail(s1), IF Head(s1) < Head(s2) THEN s2 ELSE Tail(s2))

\* std::lower_bound's bisection: first is 0-based, len the length still searched
RECURSIVE Bisect(_, _, _, _)
Bisect(s, x, first, len) ==
  IF len = 0 THEN first
  ELSE LET half == len \div 2
           mid == first + half
       IN IF s[mid + 1] < x
          THEN Bisect(s, x, mid + 1, len - half - 1)
          ELSE Bisect(s, x, first, half)

BinarySearch(s, x) ==
  LET i == Bisect(s, x, 0, Len(s))
  IN i < Len(s) /\ ~(x < s[i + 1])

(***************************************************************************)
(* BasicSearch::Merge (search.cc:245-264): matched is s1, current is s2;   *)
(* the result is the owned tmp_vec_.                                       *)
(***************************************************************************)
\* a Merge that appends the two sets instead of uniting them
MergeOrAppend(matched, current) == matched \o current

MergeOr(matched, current) == SetUnion(matched, current)

MergeAnd(matched, current) == SetIntersection(matched, current)

Merge(matched, current, op) ==
  IF op = "AND"
  THEN IndexResult(MergeAnd(matched.ids, current.ids))
  ELSE IndexResult(MergeOr(matched.ids, current.ids))

(***************************************************************************)
(* BasicSearch::UnifyResults (search.cc:267-281).  std::sort by Size() is  *)
(* not stable: every order of the children that is ascending in Size() is  *)
(* a possible fold order.                                                  *)
(***************************************************************************)
Orders(n) == {p \in [1..n -> 1..n] : \A i, j \in 1..n : i # j => p[i] # p[j]}

SizeSortedOrders(subs) ==
  {p \in Orders(Len(subs)) :
     \A i \in 1..(Len(subs) - 1) : ~(Size(subs[p[i + 1]]) < Size(subs[p[i]]))}

RECURSIVE FoldMerge(_, _, _, _)
FoldMerge(sorted, op, i, out) ==
  IF i > Len(sorted) THEN out
  ELSE FoldMerge(sorted, op, i + 1, Merge(sorted[i], out, op))

UnifyResults(subs, op) ==
  IF subs = <<>> THEN {EmptyResult}
  ELSE {LET sorted == [i \in 1..Len(subs) |-> subs[p[i]]]
        IN FoldMerge(sorted, op, 2, sorted[1]) : p \in SizeSortedOrders(subs)}

(***************************************************************************)
(* The query AST (AstNode).  Every node is a record of one shape; a field  *)
(* a variant does not have holds its default.                              *)
(***************************************************************************)
AstNode == [kind |-> "Empty", field |-> "", term |-> "", lo |-> 0, hi |-> 0,
            op |-> "", kids |-> <<>>, limit |-> 0, vec |-> <<>>]

AstStarNode == [AstNode EXCEPT !.kind = "Star"]

AstStarFieldNode == [AstNode EXCEPT !.kind = "StarField"]

AstTermNode(w) == [AstNode EXCEPT !.kind = "Term", !.term = w]

AstRangeNode(lo, hi) == [AstNode EXCEPT !.kind = "Range", !.lo = lo, !.hi = hi]

AstNegateNode(n) == [AstNode EXCEPT !.kind = "Negate", !.kids = <<n>>]

AstLogicalNode(op, nodes) == [AstNode EXCEPT !.kind = "Logical", !.op = op, !.kids = nodes]

AstFieldNode(f, n) == [AstNode EXCEPT !.kind = "Field", !.field = f, !.kids = <<n>>]

AstKnnNode(limit, f, vec, filter) ==
  [AstNode EXCEPT !.kind = "Knn", !.limit = limit, !.field = f, !.vec = vec,
                  !.kids = <<filter>>]

(***************************************************************************)
(* The members of BasicSearch (search.cc:513-522) as the evaluation        *)
(* threads them, and a record of what the evaluation did:                  *)
(*   errlog     every value assigned to error_, in order                   *)
(*   late       the results of the SearchGeneric calls entered with error_ *)
(*              set                                                        *)
(*   skipped    the number of SearchGeneric calls that returned at once    *)
(*              because error_ was set                                     *)
(*   unsorted   the kinds of the non-KNN nodes whose SearchGeneric result  *)
(*              was not sorted-unique                                      *)
(*   dcheck     the DCHECK of search.cc:491 was false at some node         *)
(*   knn        one entry per KNN node that ranked: its arguments, the     *)
(*              filter's result and what it returned                       *)
(***************************************************************************)
NoError == <<>>

BasicSearch ==
  [error |-> NoError, preagg_total |-> 0, knn_scores |-> <<>>, knn_distances |-> <<>>,
   profiling |-> TRUE, depth |-> 0, events |-> <<>>,
   errlog |-> <<>>, late |-> {}, skipped |-> 0, unsorted |-> {}, dcheck |-> FALSE,
   knn |-> <<>>]

\* BasicSearch::EnableProfiling (search.cc:195-197): a new ProfileBuilder
EnableProfiling(st) == [st EXCEPT !.profiling = TRUE, !.depth = 0, !.events = <<>>]

SetError(st, e) == [st EXCEPT !.error = e, !.errlog = Append(@, e)]

Out(r, st) == [res |-> r, st |-> st]

(***************************************************************************)
(* BasicSearch::GetBaseIndex / GetIndex<T> (search.cc:199-224): the state  *)
(* after the lookup; the lookup succeeded iff it left error_ as it was.    *)
(***************************************************************************)
GetBaseIndex(st, field) ==
  IF field \notin ContentFields
  THEN SetError(st, <<"Invalid field", field>>)
  ELSE st

GetIndex(st, field, type) ==
  IF field \notin ContentFields
  THEN GetBaseIndex(st, field)
  ELSE IF field \notin type
  THEN SetError(st, <<"Wrong access type for field", field>>)
  ELSE st

HasIndex(field, type) == field \in ContentFields /\ field \in type

(***************************************************************************)
(* Sorting (distance, doc) pairs: std::pair's operator<.                   *)
(***************************************************************************)
PairLess(a, b) == a[1] < b[1] \/ (a[1] = b[1] /\ a[2] < b[2])

RECURSIVE InsertPair(_, _)
InsertPair(s, x) ==
  IF s = <<>> THEN <<x>>
  ELSE IF PairLess(x, Head(s)) THEN <<x>> \o s
  ELSE <<Head(s)>> \o InsertPair(Tail(s), x)

RECURSIVE SortPairs(_)
SortPairs(s) == IF s = <<>> THEN <<>> ELSE InsertPair(SortPairs(Tail(s)), Head(s))

Min(a, b) == IF a < b THEN a ELSE b

(***************************************************************************)
(* BasicSearch::SearchKnnFlat (search.cc:420-435): the new knn_distances_. *)
(* FlatVectorIndex::Get(doc) is the document's vector.                     *)
(***************************************************************************)
FlatDistances(knn_distances, vec, ids) ==
  knn_distances \o [i \in 1..Len(ids) |-> <<VectorDistance(vec, Emb(ids[i])), ids[i]>>]

SearchKnnFlat(knn_distances, knn, sub) ==
  LET all == FlatDistances(knn_distances, knn.vec, sub.ids)
      prefix_size == Min(knn.limit, Len(all))
  IN SubSeq(SortPairs(all), 1, prefix_size)

(***************************************************************************)
(* HnswVectorIndex::Knn(vec, limit, ef) and Knn(vec, limit, ef, allowed):  *)
(* the limit nearest of the index's documents (of the allowed ones).       *)
(***************************************************************************)
HnswKnn(field, vec, limit, candidates) ==
  LET all == SortPairs([i \in 1..Len(candidates) |->
                          <<VectorDistance(vec, Emb(candidates[i])), candidates[i]>>])
  IN SubSeq(all, 1, Min(limit, Len(all)))

\* search.cc:438: whether the index is searched without an allow-list
HnswUnfiltered(sub) == Len(all_ids) = Size(sub)

SearchKnnHnsw(knn, sub) ==
  IF HnswUnfiltered(sub)
  THEN HnswKnn(knn.field, knn.vec, knn.limit, SortedSeq(indices[knn.field]))
  ELSE HnswKnn(knn.field, knn.vec, knn.limit,
               SortedSeq(indices[knn.field] \cap SeqRange(Take(sub))))

(***************************************************************************)
(* The per-node Search overloads and SearchGeneric.  Each yields the set   *)
(* of its possible outcomes [res, st].                                     *)
(***************************************************************************)
RECURSIVE SearchGeneric(_, _, _, _)
RECURSIVE SearchNode(_, _, _)
RECURSIVE GetSubResults(_, _, _)

\* GetSubResults (search.cc:237-243) under the mapping of search.cc:387: the
\* children are evaluated in order, each in the state the one before left
GetSubResults(nodes, active_field, st) ==
  IF nodes = <<>> THEN {[subs |-> <<>>, st |-> st]}
  ELSE UNION {{[subs |-> <<o.res>> \o t.subs, st |-> t.st] :
                 t \in GetSubResults(Tail(nodes), active_field, o.st)} :
              o \in SearchGeneric(Head(nodes), active_field, st, FALSE)}

\* search.cc:295-298
SearchStar(st) == {Out(IndexResult(all_ids), st)}

\* search.cc:300-310
SearchStarField(active_field, st) ==
  IF active_field \in SortFields
  THEN {Out(AllDocsWithNonNullValues(sort_indices[active_field]), st)}
  ELSE LET st1 == GetBaseIndex(st, active_field)
       IN IF st1 = st
          THEN {Out(AllDocsWithNonNullValues(indices[active_field]), st)}
          ELSE {Out(EmptyResult, st1)}

\* GetAllTextIndices (search.cc:673-683)
AllTextIndices == SelectSeq(ContentOrder, LAMBDA f : f \in TextFields)

\* search.cc:337-360 (no synonyms table)
SearchTerm(node, active_field, st) ==
  IF active_field # ""
  THEN LET st1 == GetIndex(st, active_field, TextFields)
       IN IF st1 = st
          THEN {Out(Matching(active_field, node.term), st)}
          ELSE {Out(EmptyResult, st1)}
  ELSE {Out(r, st) :
          r \in UnifyResults([i \in 1..Len(AllTextIndices) |->
                                Matching(AllTextIndices[i], node.term)], "OR")}

\* search.cc:363-369
SearchRange(node, active_field, st) ==
  LET st1 == GetIndex(st, active_field, NumericFields)
  IN IF st1 = st
     THEN {Out(r, st) : r \in RangeResults(active_field, node.lo, node.hi)}
     ELSE {Out(EmptyResult, st1)}

\* a remove_if that drops the documents that did not match
ComplementKept(matched, all) == SelectSeq(all, LAMBDA doc : BinarySearch(matched, doc))

\* search.cc:378-382: remove_if over a copy of all_ids_
Complement(matched, all) == SelectSeq(all, LAMBDA doc : ~BinarySearch(matched, doc))

\* search.cc:372-383
SearchNegate(node, active_field, st) ==
  {Out(IndexResult(Complement(Take(o.res), all_ids)), o.st) :
     o \in SearchGeneric(node.kids[1], active_field, st, FALSE)}

\* search.cc:386-389
SearchLogical(node, active_field, st) ==
  UNION {{Out(r, g.st) : r \in UnifyResults(g.subs, node.op)} :
           g \in GetSubResults(node.kids, active_field, st)}

\* search.cc:392-396
SearchField(node, active_field, st) ==
  SearchGeneric(node.kids[1], node.field, st, FALSE)

\* search.cc:460-475: rank the filter's result and fill knn_scores_
KnnRank(knn, sub, st) ==
  LET dists == IF knn.field \in HnswFields
               THEN SearchKnnHnsw(knn, sub)
               ELSE SearchKnnFlat(st.knn_distances, knn, sub)
      out == [i \in 1..Len(dists) |-> dists[i][2]]
      scores == [i \in 1..Len(dists) |-> <<dists[i][2], dists[i][1]>>]
      entry == [field |-> knn.field, vec |-> knn.vec, limit |-> knn.limit,
                filter |-> sub.ids, unfiltered |-> HnswUnfiltered(sub),
                out |-> out, scores |-> scores]
  IN Out(IndexResult(out),
         [st EXCEPT !.preagg_total = Size(sub), !.knn_distances = dists,
                    !.knn_scores = scores, !.knn = Append(@, entry)])

\* search.cc:446-476
SearchKnn(knn, active_field, st) ==
  {LET st1 == GetIndex(o.st, knn.field, VectorFields)
   IN IF ~HasIndex(knn.field, VectorFields)
      THEN Out(EmptyResult, st1)
      ELSE IF Dim # Len(knn.vec)
      THEN Out(EmptyResult, SetError(st1, <<"Wrong vector index dimensions", Len(knn.vec)>>))
      ELSE KnnRank(knn, o.res, st1) :
     o \in SearchGeneric(knn.kids[1], active_field, st, FALSE)}

SearchNode(node, active_field, st) ==
  CASE node.kind = "Star" -> SearchStar(st)
    [] node.kind = "StarField" -> SearchStarField(active_field, st)
    [] node.kind = "Term" -> SearchTerm(node, active_field, st)
    [] node.kind = "Range" -> SearchRange(node, active_field, st)
    [] node.kind = "Negate" -> SearchNegate(node, active_field, st)
    [] node.kind = "Logical" -> SearchLogical(node, active_field, st)
    [] node.kind = "Field" -> SearchField(node, active_field, st)
    [] node.kind = "Knn" -> SearchKnn(node, active_field, st)
    [] OTHER -> {Out(EmptyResult, st)}

\* ProfileBuilder::Start / Finish (search.cc:165-177)
ProfileStart(st) == IF st.profiling THEN [st EXCEPT !.depth = @ + 1] ELSE st

ProfileFinish(st, node, result) ==
  IF st.profiling
  THEN [st EXCEPT !.events = Append(@, [descr |-> node.kind, depth |-> st.depth - 1,
                                        size |-> Size(result)]),
                  !.depth = @ - 1]
  ELSE st

\* what the evaluation did at this node (see BasicSearch above)
Observe(st, node, result, top_level) ==
  [st EXCEPT !.unsorted = IF node.kind # "Knn" /\ ~IsSortedUnique(result.ids)
                          THEN @ \cup {node.kind} ELSE @,
             !.dcheck = @ \/ ~(top_level \/ node.kind = "Knn" \/ IsSorted(result.ids))]

\* search.cc:480-481: what a node yields once error_ is set
ShortCircuit(node) == EmptyResult

\* search.cc:479-498
SearchGeneric(node, active_field, st, top_level) ==
  IF st.error # NoError
  THEN {Out(ShortCircuit(node), [st EXCEPT !.late = @ \cup {ShortCircuit(node).ids},
                                           !.skipped = @ + 1])}
  ELSE {Out(o.res, Observe(ProfileFinish(o.st, node, o.res), node, o.res, top_level)) :
          o \in SearchNode(node, active_field, ProfileStart(st))}

\* a Take that leaves the events in the order of recording
ReverseNot(s) == s

\* ProfileBuilder::Take (search.cc:179-182)
Reverse(s) == [i \in 1..Len(s) |-> s[Len(s) + 1 - i]]

\* BasicSearch::Search (search.cc:500-511), with what the evaluation did
SearchResults(query, bs) ==
  {[query |-> query, status |-> "done",
    total |-> Len(Take(o.res)), ids |-> Take(o.res), knn_scores |-> o.st.knn_scores,
    profile |-> Reverse(o.st.events), error |-> o.st.error,
    errlog |-> o.st.errlog, late |-> o.st.late, unsorted |-> o.st.unsorted,
    dcheck |-> o.st.dcheck, knn |-> o.st.knn, depth |-> o.st.depth,
    has_profile |-> o.st.profiling, skipped |-> o.st.skipped] :
     o \in SearchGeneric(query, "", bs, TRUE)}

(***************************************************************************)
(* FieldIndices::FieldIndices (search.cc:552-557): one empty index per     *)
(* schema field, one sort index per SORTABLE field, no document.           *)
(***************************************************************************)
Init ==
  /\ indices = [f \in ContentFields |-> {}]
  /\ sort_indices = [f \in SortFields |-> {}]
  /\ all_ids = <<>>
  /\ last = NoCall
  /\ sr = NoResult
  /\ u = NoUnify
  /\ profiling_enabled = FALSE

(***************************************************************************)
(* Spec: the FieldIndices under any sequence of Add and Remove calls, with *)
(* the record of the last call.                                            *)
(***************************************************************************)
AddAny ==
  \E doc \in Docs, acc_c \in [ContentFields -> BOOLEAN], acc_s \in [SortFields -> BOOLEAN] :
    /\ Add(doc, acc_c, acc_s)
    /\ last' = AddCall(doc, acc_c, acc_s)
    /\ UNCHANGED <<sr, u, profiling_enabled>>

RemoveAny ==
  \E doc \in Docs :
    /\ Remove(doc)
    /\ last' = RemoveCall(doc)
    /\ UNCHANGED <<sr, u, profiling_enabled>>

Next == AddAny \/ RemoveAny

Spec == Init /\ [][Next]_vars

(***************************************************************************)
(* The queries searched.  A Field node binds the active field of a         *)
(* subtree that holds no Field, Star or KNN node (the DCHECKs of           *)
(* search.cc:296, 393, 447); a Range node is under a Field node            *)
(* (search.cc:364).                                                        *)
(***************************************************************************)
\* nodes evaluated without error
PlainLeaves ==
  {AstStarNode, AstTermNode("a"),
   AstFieldNode("title", AstTermNode("a")), AstFieldNode("title", AstTermNode("b")),
   AstFieldNode("price", AstRangeNode(1, 1)), AstFieldNode("price", AstRangeNode(2, MaxDoc)),
   AstFieldNode("price", AstStarFieldNode), AstFieldNode("emb", AstStarFieldNode)}

\* nodes that set error_: no such field, a field of another type
ErrorLeaves ==
  {AstFieldNode("nofield", AstTermNode("a")), AstFieldNode("price", AstTermNode("a")),
   AstFieldNode("title", AstRangeNode(1, 1))}

Leaves == PlainLeaves \cup ErrorLeaves

\* the children of the Logical nodes
Operands ==
  {AstStarNode, AstTermNode("a"), AstFieldNode("title", AstTermNode("b")),
   AstFieldNode("price", AstRangeNode(1, 1)), AstFieldNode("price", AstRangeNode(2, MaxDoc)),
   AstFieldNode("nofield", AstTermNode("a"))}

KnnFilters ==
  {AstStarNode, AstFieldNode("title", AstTermNode("a")),
   AstFieldNode("price", AstRangeNode(2, MaxDoc)), AstFieldNode("nofield", AstTermNode("a"))}

KnnNodes ==
  {AstKnnNode(l, f, v, n) :
     l \in 1..MaxLimit, f \in VectorFields, v \in QueryVecs, n \in KnnFilters}

\* KNN nodes whose own lookup or dimension check fails
BadKnnNodes ==
  {AstKnnNode(1, f, v, n) :
     f \in {"nokfield", "title"}, v \in QueryVecs, n \in {AstStarNode} \cup ErrorLeaves}
  \cup {AstKnnNode(1, f, WrongDimVec, n) :
          f \in VectorFields, n \in {AstStarNode} \cup ErrorLeaves}

\* a KNN node below another node
FewKnnNodes ==
  {AstKnnNode(l, "emb", v, n) :
     l \in 1..MaxLimit, v \in QueryVecs, n \in {AstStarNode}}

NestedKnn ==
  {AstNegateNode(k) : k \in FewKnnNodes}
  \cup {AstLogicalNode(op, <<k, n>>) :
          op \in {"AND", "OR"}, k \in FewKnnNodes, n \in {AstStarNode, AstTermNode("a")}}
  \cup {AstLogicalNode(op, <<n, k>>) :
          op \in {"AND", "OR"}, k \in FewKnnNodes, n \in {AstStarNode, AstTermNode("a")}}
  \cup {AstKnnNode(l, "emb", v, k) : l \in 1..MaxLimit, v \in QueryVecs, k \in FewKnnNodes}
  \cup {AstNegateNode(AstLogicalNode("OR", <<AstTermNode("a"), k>>)) : k \in FewKnnNodes}

\* the children of the Negate nodes
Negated ==
  Leaves \cup {AstLogicalNode(op, <<AstTermNode("a"), AstFieldNode("price", AstRangeNode(2, MaxDoc))>>) :
                 op \in {"AND", "OR"}}

Queries ==
  Leaves
  \cup {AstNegateNode(n) : n \in Negated}
  \cup {AstNegateNode(AstNegateNode(n)) : n \in Negated}
  \cup {AstLogicalNode(op, <<n, m>>) : op \in {"AND", "OR"}, n \in Operands, m \in Operands}
  \cup KnnNodes \cup BadKnnNodes \cup NestedKnn

(***************************************************************************)
(* SearchAlgorithm::Search (search.cc:725-730): a BasicSearch is built     *)
(* for the call and evaluates the query.                                   *)
(***************************************************************************)
NewBasicSearch == IF profiling_enabled THEN EnableProfiling(BasicSearch) ELSE BasicSearch

Search(query) ==
  /\ \E r \in SearchResults(query, NewBasicSearch) : sr' = r
  /\ UNCHANGED <<indices, sort_indices, all_ids, last, u, profiling_enabled>>

(***************************************************************************)
(* SpecSearch: a Search on the FieldIndices that any sequence of Add and   *)
(* Remove calls has built.  A Search leaves the FieldIndices as they are,  *)
(* so what follows a Search is what follows the state it started in: the   *)
(* Search is the last step of a behaviour, and the calls before it are not *)
(* recorded.                                                               *)
(***************************************************************************)
BuildAdd ==
  \E doc \in Docs, acc_c \in [ContentFields -> BOOLEAN], acc_s \in [SortFields -> BOOLEAN] :
    /\ sr = NoResult
    /\ Add(doc, acc_c, acc_s)
    /\ UNCHANGED <<last, sr, u, profiling_enabled>>

BuildRemove ==
  \E doc \in Docs :
    /\ sr = NoResult
    /\ Remove(doc)
    /\ UNCHANGED <<last, sr, u, profiling_enabled>>

SearchAny == \E query \in Queries : sr = NoResult /\ Search(query)

\* SearchAlgorithm::EnableProfiling (search.cc:742-744), called before the Search
SearchAlgorithmEnableProfiling ==
  /\ sr = NoResult
  /\ profiling_enabled' = TRUE
  /\ UNCHANGED <<indices, sort_indices, all_ids, last, sr, u>>

NextSearch == BuildAdd \/ BuildRemove \/ SearchAny \/ SearchAlgorithmEnableProfiling

SpecSearch == Init /\ [][NextSearch]_vars

(***************************************************************************)
(* SpecUnify: UnifyResults on the children results a, b and c, each a      *)
(* sorted-unique set of DocIds; Size() of a and of b may be more than the  *)
(* number of their DocIds, as that of a numeric range result.              *)
(***************************************************************************)
SortedSets == {SortedSeq(S) : S \in SUBSET Docs}

RangeLike == {r \in [ids : SortedSets, size : 0..MaxDoc] : r.size >= Len(r.ids)}

InitUnify ==
  /\ indices = [f \in ContentFields |-> {}]
  /\ sort_indices = [f \in SortFields |-> {}]
  /\ all_ids = <<>>
  /\ last = NoCall
  /\ sr = NoResult
  /\ profiling_enabled = FALSE
  /\ \E a \in RangeLike, b \in RangeLike, c \in SortedSets :
       u = [step |-> "in", a |-> a, b |-> b, c |-> IndexResult(c)]

Unified(step, op, x, y) == [u EXCEPT !.step = step] @@ [op |-> op, x |-> x, y |-> y]

\* a Logical node over a and b, in both orders of its children
UnifyPair ==
  /\ u.step = "in"
  /\ \E op \in {"AND", "OR"} :
       \E x \in UnifyResults(<<u.a, u.b>>, op), y \in UnifyResults(<<u.b, u.a>>, op) :
         u' = Unified("pair", op, x.ids, y.ids)
  /\ UNCHANGED <<indices, sort_indices, all_ids, last, sr, profiling_enabled>>

\* a Logical node over a, b and c, in any order of its children
UnifyTriple ==
  /\ u.step = "in"
  /\ \E op \in {"AND", "OR"}, p \in Orders(3) :
       \E x \in UnifyResults([i \in 1..3 |-> <<u.a, u.b, u.c>>[p[i]]], op) :
         u' = Unified("triple", op, x.ids, <<>>)
  /\ UNCHANGED <<indices, sort_indices, all_ids, last, sr, profiling_enabled>>

\* AND(a, OR(b, c)) and OR(AND(a, b), AND(a, c))
UnifyDistrib ==
  /\ u.step = "in"
  /\ \E bc \in UnifyResults(<<u.b, u.c>>, "OR"), ab \in UnifyResults(<<u.a, u.b>>, "AND"),
        ac \in UnifyResults(<<u.a, u.c>>, "AND") :
       \E x \in UnifyResults(<<u.a, bc>>, "AND"), y \in UnifyResults(<<ab, ac>>, "OR") :
         u' = Unified("distrib", "AND", x.ids, y.ids)
  /\ UNCHANGED <<indices, sort_indices, all_ids, last, sr, profiling_enabled>>

NextUnify == UnifyPair \/ UnifyTriple \/ UnifyDistrib

SpecUnify == InitUnify /\ [][NextUnify]_vars

(***************************************************************************)
(* FieldIndices: Add and Remove (checked under Spec).                      *)
(***************************************************************************)
InAllIndices(doc) ==
  /\ \A f \in ContentFields : doc \in indices[f]
  /\ \A f \in SortFields : doc \in sort_indices[f]

InNoIndex(doc) ==
  /\ \A f \in ContentFields : doc \notin indices[f]
  /\ \A f \in SortFields : doc \notin sort_indices[f]

\* C1: Add(doc) is all-or-nothing: after an Add that returned true every content
\* index and every sort index holds doc and doc is in all_ids; after an Add that
\* returned false all_ids is as it was before the call and no index was left
\* holding doc while another does not: either none holds it or (the doc having
\* been there before the call) all still do.  The claim's "no index contains doc"
\* implies this.
C1_AddAllOrNothing ==
  last.op = "Add" =>
    IF last.ok
    THEN InAllIndices(last.doc) /\ last.doc \in SeqRange(all_ids)
    ELSE (InNoIndex(last.doc) \/ InAllIndices(last.doc)) /\ all_ids = last.pre_ids

\* For the Add of a doc that was not in all_ids before the call, the claim as it
\* is worded.
AddOfNewDocAllOrNothing ==
  (last.op = "Add" /\ last.fresh) =>
    IF last.ok
    THEN InAllIndices(last.doc) /\ last.doc \in SeqRange(all_ids)
    ELSE InNoIndex(last.doc) /\ all_ids = last.pre_ids

\* C2: after any sequence of Add and Remove calls all_ids is strictly increasing
\* and every DocId an index holds is in all_ids.
C2_AllIdsStrictlyIncreasing ==
  /\ IsSortedUnique(all_ids)
  /\ \A f \in ContentFields : indices[f] \subseteq SeqRange(all_ids)
  /\ \A f \in SortFields : sort_indices[f] \subseteq SeqRange(all_ids)

\* What does hold of all_ids: it is sorted, and holds every indexed DocId.
AllIdsSortedAndCovering ==
  /\ IsSorted(all_ids)
  /\ \A f \in ContentFields : indices[f] \subseteq SeqRange(all_ids)
  /\ \A f \in SortFields : sort_indices[f] \subseteq SeqRange(all_ids)

\* C3: a successful Add of a doc that was not present, followed by Remove of that
\* doc, leaves all_ids and every content and sort index as they were before the Add.
C3_AddRemoveRestores ==
  (last.op = "Remove" /\ last.fresh) => Snapshot = last.pre

\* an Add then Remove of a new doc, on a FieldIndices that holds another document
C3_Witness ==
  /\ last.op = "Remove" /\ last.fresh
  /\ all_ids # <<>>
  /\ Snapshot = last.pre

(***************************************************************************)
(* The evaluator (checked under SpecSearch).                               *)
(***************************************************************************)
Done == sr.status = "done"

RECURSIVE HasKnn(_)
HasKnn(node) ==
  node.kind = "Knn" \/ \E i \in 1..Len(node.kids) : HasKnn(node.kids[i])

RECURSIVE SumKnn(_, _)
RECURSIVE KnnCount(_)
SumKnn(nodes, i) == IF i > Len(nodes) THEN 0 ELSE KnnCount(nodes[i]) + SumKnn(nodes, i + 1)

KnnCount(node) == (IF node.kind = "Knn" THEN 1 ELSE 0) + SumKnn(node.kids, 1)

\* the id sets a query can yield when searched on its own, without error
IdSets(query) ==
  {SeqRange(r.ids) : r \in {x \in SearchResults(query, NewBasicSearch) : x.error = NoError}}

\* C4: whenever the SearchResult has a non-empty error string, its ids list is
\* empty and its total is 0.
C4_ErrorMeansNoIds ==
  (Done /\ sr.error # NoError) => (sr.ids = <<>> /\ sr.total = 0)

\* C5: the first error wins and is sticky: the SearchResult's error is the first
\* value assigned to error_ in the Search (no later failure replaces it), and
\* every SearchGeneric call entered after that returns an empty result.
C5_FirstErrorWins ==
  Done =>
    /\ sr.errlog # <<>> => sr.error = sr.errlog[1]
    /\ sr.late \subseteq {<<>>}

\* What does hold: the SearchResult's error is the last value assigned, and the
\* calls entered with error_ set return empty.
LastErrorReturned ==
  Done =>
    /\ sr.error = (IF sr.errlog = <<>> THEN NoError ELSE sr.errlog[Len(sr.errlog)])
    /\ sr.late \subseteq {<<>>}

\* C6: the result of SearchGeneric at every node that is not a KNN node is sorted
\* ascending and free of duplicates, whatever the node's children are; stated
\* here for the FieldIndices whose all_ids is strictly increasing.
C6_NonKnnResultsSortedUnique ==
  (Done /\ IsSortedUnique(all_ids)) => sr.unsorted = {}

\* The DCHECK of search.cc:491 holds at every node.
DcheckHolds == Done => ~sr.dcheck

\* C7: for a query q without KNN node, evaluated without error, the id set of
\* Negate(q) is all_ids minus the id set of q, and the id set of
\* Negate(Negate(q)) is the id set of q.
C7_NegateIsComplement ==
  (Done /\ sr.error = NoError /\ sr.query.kind = "Negate" /\ ~HasKnn(sr.query)) =>
    LET q == sr.query.kids[1]
    IN /\ \A ids \in IdSets(q) : SeqRange(sr.ids) = SeqRange(all_ids) \ ids
       /\ q.kind = "Negate" =>
            \A ids \in IdSets(q.kids[1]) : SeqRange(sr.ids) = ids

\* a double negation that returned some of the documents, not all
C7_Witness ==
  /\ Done /\ sr.error = NoError
  /\ sr.query.kind = "Negate" /\ sr.query.kids[1].kind = "Negate"
  /\ sr.ids # <<>> /\ SeqRange(sr.ids) # SeqRange(all_ids)
  /\ IdSets(sr.query.kids[1].kids[1]) = {SeqRange(sr.ids)}

FlatEntries == {i \in 1..Len(sr.knn) : sr.knn[i].field \in FlatFields}

HnswEntries == {i \in 1..Len(sr.knn) : sr.knn[i].field \in HnswFields}

KnnEntryOk(e) ==
  /\ Len(e.out) <= e.limit
  /\ \A j \in 1..Len(e.out) : e.out[j] \in SeqRange(e.filter)
  /\ \A j \in 1..(Len(e.out) - 1) :
       VectorDistance(e.vec, Emb(e.out[j])) <= VectorDistance(e.vec, Emb(e.out[j + 1]))
  /\ Len(e.scores) = Len(e.out)
  /\ \A j \in 1..Len(e.out) :
       e.scores[j] = <<e.out[j], VectorDistance(e.vec, Emb(e.out[j]))>>

\* C9: a KNN node over a flat vector index returns at most limit DocIds, ordered
\* by non-decreasing distance to the query vector, each drawn from the result of
\* its filter, and knn_scores lists the same DocIds in the same order, each with
\* its distance.
C9_FlatKnnRanksFilter ==
  Done => \A i \in FlatEntries : KnnEntryOk(sr.knn[i])

\* The same for the queries with one KNN node.
FlatKnnRanksFilterIfOneKnn ==
  (Done /\ KnnCount(sr.query) <= 1) =>
    \A i \in FlatEntries : KnnEntryOk(sr.knn[i])

\* C10: in the HNSW path the index's unfiltered Knn is called only when the
\* filter's result is the full corpus all_ids.
C10_HnswUnfilteredOnlyOnFullCorpus ==
  Done => \A i \in HnswEntries :
            sr.knn[i].unfiltered => SeqRange(sr.knn[i].filter) = SeqRange(all_ids)

(***************************************************************************)
(* UnifyResults (checked under SpecUnify).                                 *)
(***************************************************************************)
SetOf(r) == SeqRange(r.ids)

\* C8: the result of a Logical node depends neither on the order of its children
\* nor on the fold order UnifyResults sorts them into: AND(a,b) = AND(b,a) is the
\* intersection, OR(a,b) = OR(b,a) the union, the same for three children in any
\* order, and AND(a, OR(b,c)) = OR(AND(a,b), AND(a,c)); also where Size() of a
\* child is more than the number of its DocIds.
C8_LogicalLaws ==
  /\ u.step = "pair" =>
       /\ u.x = u.y
       /\ u.x = SortedSeq(IF u.op = "AND" THEN SetOf(u.a) \cap SetOf(u.b)
                          ELSE SetOf(u.a) \cup SetOf(u.b))
  /\ u.step = "triple" =>
       u.x = SortedSeq(IF u.op = "AND" THEN SetOf(u.a) \cap SetOf(u.b) \cap SetOf(u.c)
                       ELSE SetOf(u.a) \cup SetOf(u.b) \cup SetOf(u.c))
  /\ u.step = "distrib" => u.x = u.y

\* the distributive law on sets that overlap, where Size() of a says more than a
\* holds and would sort a after b
C8_Witness ==
  /\ u.step = "distrib"
  /\ u.x # <<>> /\ u.x = u.y
  /\ Size(u.a) > Len(u.a.ids) /\ Len(u.a.ids) < Len(u.b.ids) /\ Size(u.a) > Size(u.b)
  /\ SetOf(u.b) # SetOf(u.c)


(***************************************************************************)
(* C13.  When an index rejects the document during Add, Remove(doc) is     *)
(* called on exactly the indices that had accepted it (not on the one that *)
(* rejected, not on one that was never attempted), in the reverse of the   *)
(* order in which they accepted; every content index is attempted before   *)
(* any sort index, and no sort index once a content index has rejected.    *)
(***************************************************************************)
IsContent(e) == e[1] = "content"

ContentBeforeSort(calls) ==
  \A i, j \in 1..Len(calls) : (IsContent(calls[j]) /\ ~IsContent(calls[i])) => j < i

NoSortAfterContentReject ==
  (\E e \in SeqRange(last.attempted) : IsContent(e) /\ e \notin SeqRange(last.added))
    => \A e \in SeqRange(last.attempted) : IsContent(e)

C13_RollbackInReverseOrder ==
  (last.op = "Add" /\ ~last.ok) =>
    /\ last.removed = Reverse(last.added)
    /\ ContentBeforeSort(last.attempted)
    /\ NoSortAfterContentReject

\* All of C13 but the order: the rollback calls Remove once on each index that
\* accepted and on no other, in the order in which they accepted.
RollbackOfAcceptedInOrder ==
  (last.op = "Add" /\ ~last.ok) =>
    /\ last.removed = last.added
    /\ Len(last.attempted) = Len(last.added) + 1
    /\ last.attempted[Len(last.attempted)] \notin SeqRange(last.removed)
    /\ SubSeq(last.attempted, 1, Len(last.added)) = last.added
    /\ ContentBeforeSort(last.attempted)
    /\ NoSortAfterContentReject


(***************************************************************************)
(* C14.  SearchResult.profile is present if and only if EnableProfiling()  *)
(* was called on the SearchAlgorithm before the Search; a Search without   *)
(* it returns no profile and records no profile event.                     *)
(***************************************************************************)
C14_ProfileIffEnabled ==
  Done =>
    /\ sr.has_profile <=> profiling_enabled
    /\ ~profiling_enabled => sr.profile = <<>>

\* The half of C14 that holds: after EnableProfiling() the profile is present.
ProfileWhenEnabled == (Done /\ profiling_enabled) => sr.has_profile


(***************************************************************************)
(* C11.  With profiling enabled the profile is complete also on error: a   *)
(* Search records exactly one profile event for every node of the query,   *)
(* the nodes visited after an error has been recorded included.            *)
(***************************************************************************)
RECURSIVE NodeCount(_)
RECURSIVE SumNodes(_, _)
SumNodes(nodes, i) ==
  IF i > Len(nodes) THEN 0 ELSE NodeCount(nodes[i]) + SumNodes(nodes, i + 1)

NodeCount(node) == 1 + SumNodes(node.kids, 1)

C11_ProfileCompleteOnError ==
  (Done /\ profiling_enabled) => Len(sr.profile) = NodeCount(sr.query)

\* What holds instead: a node has an event unless it was entered with error_
\* set or lies below such a node (which is then never entered); without error
\* every node has its event.
ProfileOfEvaluatedNodes ==
  (Done /\ profiling_enabled) =>
    /\ Len(sr.profile) >= 1
    /\ Len(sr.profile) + sr.skipped <= NodeCount(sr.query)
    /\ sr.error = NoError => (sr.skipped = 0 /\ Len(sr.profile) = NodeCount(sr.query))


(***************************************************************************)
(* C12.  Profile events are recorded when a node finishes and reversed on  *)
(* Take: in the returned profile the first event is the root node with     *)
(* depth 0, every event's depth is the nesting depth of its node, every    *)
(* node's event comes before the events of all its descendants, and the    *)
(* depth counter is back to 0 when the top-level SearchGeneric returns.    *)
(* PreOrder is that presentation of a query: a node at its nesting depth,  *)
(* then its children's subtrees, the last child first.  The profile of a   *)
(* Search without error is PreOrder; the profile of a Search with an error *)
(* is PreOrder without the nodes that were not evaluated.                  *)
(***************************************************************************)
RECURSIVE PreOrder(_, _)
RECURSIVE PreOrderKids(_, _, _)
PreOrderKids(nodes, i, d) ==
  IF i = 0 THEN <<>> ELSE PreOrder(nodes[i], d) \o PreOrderKids(nodes, i - 1, d)

PreOrder(node, d) ==
  <<[descr |-> node.kind, depth |-> d]>> \o PreOrderKids(node.kids, Len(node.kids), d + 1)

DescrDepth(events) ==
  [i \in 1..Len(events) |-> [descr |-> events[i].descr, depth |-> events[i].depth]]

RECURSIVE IsSubSeq(_, _)
IsSubSeq(s, t) ==
  IF s = <<>> THEN TRUE
  ELSE IF t = <<>> THEN FALSE
  ELSE IF Head(s) = Head(t) THEN IsSubSeq(Tail(s), Tail(t))
  ELSE IsSubSeq(s, Tail(t))

C12_ProfileRootFirstWithDepths ==
  (Done /\ sr.has_profile) =>
    /\ sr.depth = 0
    /\ sr.profile # <<>>
    /\ sr.profile[1].descr = sr.query.kind /\ sr.profile[1].depth = 0
    /\ IsSubSeq(DescrDepth(sr.profile), PreOrder(sr.query, 0))
    /\ sr.error = NoError => DescrDepth(sr.profile) = PreOrder(sr.query, 0)

\* a Search with profiling enabled of a query nested three deep with a node of
\* two children, and the profile it returned
C12_Witness ==
  /\ Done /\ profiling_enabled /\ sr.error = NoError
  /\ sr.depth = 0
  /\ Len(sr.profile) >= 5
  /\ \E i \in 1..Len(sr.profile) : sr.profile[i].depth = 3
  /\ \E i \in 1..Len(sr.profile) : sr.profile[i].descr = "Logical"
  /\ sr.profile[1].depth = 0
  /\ DescrDepth(sr.profile) = PreOrder(sr.query, 0)


(***************************************************************************)
(* C15.  The DocIds a flat-index KNN node returns contain no DocId twice   *)
(* and only distances computed against the node's own query vector, also   *)
(* when its filter holds a KNN node: the distance buffer of the inner KNN  *)
(* does not leak into the ranking of the outer one.  Stated for all_ids    *)
(* without a repeated DocId, so that a DocId can only repeat through the   *)
(* ranking.                                                                *)
(***************************************************************************)
NoDocTwice(ids) == \A i, j \in 1..Len(ids) : i # j => ids[i] # ids[j]

OwnDistances(e) ==
  \A j \in 1..Len(e.scores) :
    e.scores[j][2] = VectorDistance(e.vec, Emb(e.scores[j][1]))

C15_NestedKnnDistancesDoNotLeak ==
  (Done /\ IsSortedUnique(all_ids)) =>
    \A i \in FlatEntries : NoDocTwice(sr.knn[i].out) /\ OwnDistances(sr.knn[i])

\* The same for the queries with one KNN node: the buffer is empty when it ranks.
NoLeakIfOneKnn ==
  (Done /\ IsSortedUnique(all_ids) /\ KnnCount(sr.query) <= 1) =>
    \A i \in FlatEntries : NoDocTwice(sr.knn[i].out) /\ OwnDistances(sr.knn[i])

====
